---- MODULE Spec2Model ----
(***************************************************************************)
(* "The Couple's Couch" (src/app.py): a Streamlit session holding a taste  *)
(* profile (liked_items) persisted to user_data.json, and the multi-seed   *)
(* recommendation pipeline get_recommendations_multi_seed with its        *)
(* provider lookup get_uk_providers and the "Find Matches" handler.        *)
(*                                                                         *)
(* Two specifications share the variables:                                 *)
(*   Spec     the profile handlers (sidebar add, "Already Watched",        *)
(*            remove, clear all), save_user_data / load_user_data and a    *)
(*            session restart, starting from no file and an empty profile; *)
(*   SpecAgg  the "Find Matches" handler applied to a profile drawn from   *)
(*            the profiles the handlers can build, against upstream        *)
(*            answers drawn from a bounded catalogue; the upstream state   *)
(*            is chosen initially and read by every run.                   *)
(*                                                                         *)
(* vote_average is a float with one decimal in the upstream data; it is    *)
(* modelled in tenths (6.0 is 60).  The watch-later list is not modelled:  *)
(* data_file stands for the 'liked_items' entry of user_data.json.         *)
(***************************************************************************)
EXTENDS Integers, Sequences, FiniteSets, TLC

\* ---------------------------------------------------------------- bounds
MaxSeedId == 4

MaxSearchId == 2

MaxProfile == 4

MaxWriteFailures == 1

\* ------------------------------------------------------ program constants
MY_SERVICES ==
    {"Netflix", "Amazon Prime Video", "Disney+", "Apple TV+", "Now TV", "BBC iPlayer",
     "ITVX", "Channel 4", "My5", "UKTV Play", "Paramount+", "Discovery+"}

MIN_VOTE_AVERAGE == 60

MIN_VOTE_COUNT == 50

SeedWindow == 3

ResultWindow == 15

ValidLimit == 12

FallbackLimit == 6

VARIABLES
    liked_items,       \* st.session_state.liked_items
    data_file,         \* user_data.json: [state, liked_items]
    write_failures,    \* number of failed writes so far (bounded)
    filter_providers,  \* the "Only my services" checkbox
    upstream,          \* the upstream service: answer per seed request, catalogue
    all_valid,         \* all_valid at line 143, in discovery order
    all_fallback,      \* all_fallback at line 143, in discovery order
    valid,             \* first value returned by get_recommendations_multi_seed
    fallback,          \* second value returned by get_recommendations_multi_seed
    rec_calls,         \* recommendation requests issued by the last run
    notice             \* the message the last "Find Matches" run showed

vars ==
    <<liked_items, data_file, write_failures, filter_providers, upstream,
      all_valid, all_fallback, valid, fallback, rec_calls, notice>>

\* ---------------------------------------------------------------- helpers
Min(a, b) == IF a < b THEN a ELSE b

Max(a, b) == IF a > b THEN a ELSE b

Range(s) == {s[i] : i \in 1..Len(s)}

\* dict.get(key, default)
Get(d, key, default) == IF key \in DOMAIN d THEN d[key] ELSE default

\* table lookup by a running number
Cycle(tbl, n) == tbl[(n % Len(tbl)) + 1]

\* ------------------------------------------------------- upstream service
MediaTypes == {"movie", "tv"}

Names == {"A", "B"}

Offer(n) == [provider_name |-> n]

\* Answers of /watch/providers.  ok = FALSE: transport error, timeout or non-2xx.
ProvFail == [ok |-> FALSE, results |-> [US |-> [link |-> "u"]]]

ProvNoGB == [ok |-> TRUE, results |-> [US |-> [link |-> "u", flatrate |-> <<Offer("Netflix")>>]]]

ProvGB(entry) == [ok |-> TRUE, results |-> [GB |-> entry]]

ProvNetflix == ProvGB([link |-> "u", flatrate |-> <<Offer("Netflix")>>])

ProvChannel4 ==
    ProvGB([link |-> "u", free |-> <<Offer("Channel 4")>>, ads |-> <<Offer("Channel 4")>>])

ProvRentBuy ==
    ProvGB([link |-> "u", rent |-> <<Offer("Apple TV")>>, buy |-> <<Offer("Amazon Video")>>])

ProvRentAllowed ==
    ProvGB([link |-> "u", rent |-> <<Offer("Netflix")>>, flatrate |-> <<Offer("Sky Go")>>])

ProvMixed ==
    ProvGB([link |-> "u", flatrate |-> <<Offer("Sky Go"), Offer("Disney+")>>,
            ads |-> <<Offer("ITVX")>>, buy |-> <<Offer("Sky Store")>>])

ProvNoOffers == ProvGB([link |-> "u"])

\* Two catalogues: per candidate id the optional vote_average (<<>> = the
\* field is missing), the optional vote_count and the provider answer.
Variants == {1, 2}

ScoreTable(v) ==
    IF v = 1 THEN << <<87>>, <<79>>, <<79>>, <<60>>, <<75>> >>
    ELSE << <<52>>, <<87>>, <<>>, <<59>>, <<60>>, <<79>>, <<61>> >>

CountTable(v) ==
    IF v = 1 THEN << <<300>>, <<50>>, <<2000>> >>
    ELSE << <<49>>, <<50>>, <<>>, <<300>> >>

ProvTable(v) ==
    IF v = 1 THEN <<ProvNetflix, ProvChannel4, ProvRentBuy>>
    ELSE <<ProvFail, ProvNetflix, ProvNoGB, ProvRentAllowed, ProvMixed,
           ProvNoOffers, ProvRentBuy, ProvChannel4>>

\* One record of a recommendation answer.  Id 0 stands for a malformed
\* record that carries no 'id'.
Title(id, v) ==
    LET avg == Cycle(ScoreTable(v), id)
        cnt == Cycle(CountTable(v), id)
        a   == IF avg = <<>> THEN [id |-> id] ELSE [id |-> id, vote_average |-> avg[1]]
    IN  IF id = 0 THEN [overview |-> "n/a"]
        ELSE IF cnt = <<>> THEN a ELSE ("vote_count" :> cnt[1]) @@ a

\* The ids of the two answers the service can give: sixteen titles in a row,
\* and a list that names profile titles, repeats an id, overlaps the first
\* list and carries a malformed record.
RecIds ==
    << [i \in 1..16 |-> i + 5],
       <<1, 2, 3, 4, 5, 12, 12, 13, 22, 23, 24, 25, 26, 0, 27, 28>> >>

\* Answers of /recommendations: choice 0 is a failed call.
RecChoices == 0..Len(RecIds)

RecResponse(choice, v) ==
    IF choice = 0 THEN [ok |-> FALSE, results |-> <<>>]
    ELSE [ok |-> TRUE, results |-> [i \in 1..Len(RecIds[choice]) |-> Title(RecIds[choice][i], v)]]

ProvResponse(item_id, media_type, v) ==
    Cycle(ProvTable(v), item_id + (IF media_type = "tv" THEN 1 ELSE 0))

\* The upstream service: the answer to each seed's request and the catalogue.
Worlds(n) == [recs : [1..n -> RecChoices], variant : Variants]

NoWorld == [recs |-> <<>>, variant |-> 1]

Responses(w) == [i \in 1..Len(w.recs) |-> RecResponse(w.recs[i], w.variant)]

\* variant of get_uk_providers that also counts rent and buy offers
get_uk_providers_any_offer(item_id, media_type, v) ==
    LET resp    == ProvResponse(item_id, media_type, v)
        uk_data == Get(resp.results, "GB", [link |-> "u"])
        options == Get(uk_data, "flatrate", <<>>) \o Get(uk_data, "free", <<>>)
                   \o Get(uk_data, "ads", <<>>) \o Get(uk_data, "rent", <<>>)
                   \o Get(uk_data, "buy", <<>>)
        hits    == SelectSeq(options, LAMBDA p : p.provider_name \in MY_SERVICES)
    IN  IF ~resp.ok THEN <<>>
        ELSE [i \in 1..Len(hits) |-> hits[i].provider_name]

\* ------------------------------------------------------ get_uk_providers
\* lines 76-91; v is the catalogue the request is answered from
get_uk_providers(item_id, media_type, v) ==
    LET resp    == ProvResponse(item_id, media_type, v)
        uk_data == Get(resp.results, "GB", [link |-> "u"])
        options == Get(uk_data, "flatrate", <<>>) \o Get(uk_data, "free", <<>>)
                   \o Get(uk_data, "ads", <<>>)
        hits    == SelectSeq(options, LAMBDA p : p.provider_name \in MY_SERVICES)
    IN  IF ~resp.ok THEN <<>>
        ELSE [i \in 1..Len(hits) |-> hits[i].provider_name]

\* ---------------------------------------- get_recommendations_multi_seed
\* line 105
Seeds(liked) == SubSeq(liked, Max(1, Len(liked) - SeedWindow + 1), Len(liked))

\* variant of liked_ids that collects the ids of the seeds only
liked_ids_of_seeds(liked) == {Seeds(liked)[i].id : i \in 1..Len(Seeds(liked))}

\* line 103
liked_ids(liked) == {liked[i].id : i \in 1..Len(liked)}

\* variant of Skip that forgets the ids seen so far
Skip_unseen(item, seen_ids, liked) == item.id \in liked_ids(liked)

\* line 120
Skip(item, seen_ids, liked) == item.id \in seen_ids \/ item.id \in liked_ids(liked)

\* variant of PassesGate that lets a record without vote_count through
PassesGate_missing_count(item) ==
    /\ ~(Get(item, "vote_average", 0) < MIN_VOTE_AVERAGE)
    /\ ~(Get(item, "vote_count", MIN_VOTE_COUNT) < MIN_VOTE_COUNT)

\* lines 124-127
PassesGate(item) ==
    /\ ~(Get(item, "vote_average", 0) < MIN_VOTE_AVERAGE)
    /\ ~(Get(item, "vote_count", 0) < MIN_VOTE_COUNT)

\* lines 129-138
Place(acc, item, seed, v) ==
    LET providers == get_uk_providers(item.id, seed.media_type, v)
        tagged    == [media_type |-> seed.media_type, seed_name |-> seed.name] @@ item
    IN  IF providers # <<>>
        THEN [acc EXCEPT !.all_valid = Append(@, ("my_providers" :> providers) @@ tagged)]
        ELSE [acc EXCEPT !.all_fallback = Append(@, tagged)]

RECURSIVE ProcessItems(_, _, _, _, _, _)
\* lines 118-138; a record without 'id' raises KeyError, which ends this seed
ProcessItems(results, k, acc, seed, liked, v) ==
    IF k > Min(Len(results), ResultWindow) THEN acc
    ELSE LET item == results[k]
         IN  IF "id" \notin DOMAIN item THEN acc
             ELSE IF Skip(item, acc.seen_ids, liked)
                  THEN ProcessItems(results, k + 1, acc, seed, liked, v)
             ELSE LET seen == [acc EXCEPT !.seen_ids = @ \cup {item.id}]
                  IN  IF ~PassesGate(item)
                      THEN ProcessItems(results, k + 1, seen, seed, liked, v)
                      ELSE ProcessItems(results, k + 1, Place(seen, item, seed, v),
                                        seed, liked, v)

\* variant of SeedBody in which a failed request discards what was gathered
SeedBody_failure_discards(acc, seed, resp, liked, v) ==
    LET called == [acc EXCEPT !.calls = @ + 1]
    IN  IF ~resp.ok THEN [called EXCEPT !.all_valid = <<>>, !.all_fallback = <<>>]
        ELSE ProcessItems(resp.results, 1, called, seed, liked, v)

\* lines 108-142: one pass of the loop over the seeds; a failed request
\* raises inside the try and the except clause moves on to the next seed
SeedBody(acc, seed, resp, liked, v) ==
    LET called == [acc EXCEPT !.calls = @ + 1]
    IN  IF ~resp.ok THEN called
        ELSE ProcessItems(resp.results, 1, called, seed, liked, v)

RECURSIVE SeedLoop(_, _, _, _, _, _)
\* line 107
SeedLoop(seeds, i, acc, liked, responses, v) ==
    IF i > Len(seeds) THEN acc
    ELSE SeedLoop(seeds, i + 1, SeedBody(acc, seeds[i], responses[i], liked, v),
                  liked, responses, v)

SortKey(x) == Get(x, "vote_average", 0)

\* variant of InsertDesc that puts x in front of the elements with its key
InsertDesc_before_equals(s, x) ==
    LET ahead == Cardinality({i \in 1..Len(s) : SortKey(s[i]) > SortKey(x)})
    IN  SubSeq(s, 1, ahead) \o <<x>> \o SubSeq(s, ahead + 1, Len(s))

\* x goes into the descending list s behind every element whose key is not
\* smaller than its own
InsertDesc(s, x) ==
    LET ahead == Cardinality({i \in 1..Len(s) : SortKey(s[i]) >= SortKey(x)})
    IN  SubSeq(s, 1, ahead) \o <<x>> \o SubSeq(s, ahead + 1, Len(s))

RECURSIVE SortDesc(_, _)
\* list.sort(key=vote_average, reverse=True) of the first n elements: stable
SortDesc(s, n) == IF n = 0 THEN <<>> ELSE InsertDesc(SortDesc(s, n - 1), s[n])

\* s[:n]
Truncate(s, n) == SubSeq(s, 1, Min(n, Len(s)))

\* lines 144-147
Returned(acc) ==
    [all_valid    |-> acc.all_valid,
     all_fallback |-> acc.all_fallback,
     calls        |-> acc.calls,
     valid        |-> Truncate(SortDesc(acc.all_valid, Len(acc.all_valid)), ValidLimit),
     fallback     |-> Truncate(SortDesc(acc.all_fallback, Len(acc.all_fallback)),
                               FallbackLimit)]

\* responses[i] answers the request for the i-th seed
get_recommendations_multi_seed(liked, responses, v) ==
    LET empty == [all_valid |-> <<>>, all_fallback |-> <<>>, seen_ids |-> {}, calls |-> 0]
    IN  IF liked = <<>> THEN Returned(empty)
        ELSE Returned(SeedLoop(Seeds(liked), 1, empty, liked, responses, v))

\* lines 288-312, for the "Find Matches" button
Notice(filter, v, f) ==
    LET final_list == IF filter THEN v ELSE v \o f
    IN  IF final_list = <<>> THEN "error"
        ELSE IF filter /\ v # <<>> THEN "success"
        ELSE IF ~filter THEN "info"
        ELSE "warning"

\* --------------------------------------------------------- persistence
NoFile == [state |-> "absent", liked_items |-> <<>>]

\* load_user_data: a missing or unreadable file yields the empty list
load_user_data(file) == IF file.state = "ok" THEN file.liked_items ELSE <<>>

WriteOutcomes == {"written", "open_failed", "dump_failed"}

\* save_user_data: the exception is caught and reported, the file is left
\* untouched (open failed) or truncated (dump failed)
save_user_data(file, liked, outcome) ==
    CASE outcome = "written"     -> [state |-> "ok", liked_items |-> liked]
      [] outcome = "open_failed" -> file
      [] OTHER                   -> [state |-> "corrupt", liked_items |-> <<>>]

Save(liked, outcome) ==
    /\ outcome # "written" => write_failures < MaxWriteFailures
    /\ data_file' = save_user_data(data_file, liked, outcome)
    /\ write_failures' = IF outcome = "written" THEN write_failures ELSE write_failures + 1

\* A rerun of the script without the "Find Matches" button shows no results.
NoResults ==
    /\ upstream' = upstream
    /\ all_valid' = <<>>
    /\ all_fallback' = <<>>
    /\ valid' = <<>>
    /\ fallback' = <<>>
    /\ rec_calls' = 0
    /\ notice' = "none"

\* ------------------------------------------------------ profile handlers
SearchIds == 1..MaxSearchId

\* records of a /search/multi answer: series carry 'name', films 'title'
SearchResults ==
    [id : SearchIds, media_type : {"tv"}, name : Names]
        \cup [id : SearchIds, media_type : {"movie"}, title : Names]

\* item.get('name') or item.get('title')
DisplayName(item, default) == Get(item, "name", Get(item, "title", default))

\* lines 229-238
SidebarAdd(item, outcome) ==
    LET new_item == [id |-> item.id, name |-> DisplayName(item, "None"),
                     media_type |-> Get(item, "media_type", "unknown")]
    IN  /\ Len(liked_items) < MaxProfile
        /\ new_item \notin Range(liked_items)
        /\ liked_items' = Append(liked_items, new_item)
        /\ Save(liked_items', outcome)
        /\ NoResults
        /\ UNCHANGED filter_providers

\* the cards "Already Watched" can be pressed on
CardItems ==
    [id : SearchIds, media_type : {"tv"}, name : Names]
        \cup [id : SearchIds, media_type : {"movie"}, title : Names]

\* lines 183-196
AlreadyWatched(item, outcome) ==
    LET new_item == [id |-> item.id, name |-> DisplayName(item, "Unknown"),
                     media_type |-> Get(item, "media_type", "unknown")]
    IN  /\ Len(liked_items) < MaxProfile
        /\ \A i \in 1..Len(liked_items) : liked_items[i].id # new_item.id
        /\ liked_items' = Append(liked_items, new_item)
        /\ Save(liked_items', outcome)
        /\ NoResults
        /\ UNCHANGED filter_providers

\* lines 248-251
Remove(idx, outcome) ==
    /\ idx \in 1..Len(liked_items)
    /\ liked_items' = [i \in 1..(Len(liked_items) - 1) |->
                          IF i < idx THEN liked_items[i] ELSE liked_items[i + 1]]
    /\ Save(liked_items', outcome)
    /\ NoResults
    /\ UNCHANGED filter_providers

\* lines 253-256
ClearAll(outcome) ==
    /\ liked_items # <<>>
    /\ liked_items' = <<>>
    /\ Save(liked_items', outcome)
    /\ NoResults
    /\ UNCHANGED filter_providers

\* lines 56-60: a new session loads the saved data
Restart ==
    /\ liked_items' = load_user_data(data_file)
    /\ filter_providers' = TRUE
    /\ NoResults
    /\ UNCHANGED <<data_file, write_failures>>

\* ---------------------------------------------------- "Find Matches"
\* lines 286-312: the run's results and message
Show(r) ==
    /\ all_valid' = r.all_valid
    /\ all_fallback' = r.all_fallback
    /\ valid' = r.valid
    /\ fallback' = r.fallback
    /\ rec_calls' = r.calls
    /\ notice' = Notice(filter_providers, r.valid, r.fallback)

\* lines 273-316 with search_btn pressed
FindMatches ==
    /\ liked_items # <<>>
    /\ Show(get_recommendations_multi_seed(liked_items, Responses(upstream),
                                           upstream.variant))
    /\ UNCHANGED <<liked_items, data_file, write_failures, filter_providers, upstream>>

\* line 282: ticking the checkbox reruns the script without results
ToggleFilter ==
    /\ liked_items # <<>>
    /\ filter_providers' = ~filter_providers
    /\ NoResults
    /\ UNCHANGED <<liked_items, data_file, write_failures>>

\* ------------------------------------------------------- specifications
Init ==
    /\ liked_items = <<>>
    /\ data_file = NoFile
    /\ write_failures = 0
    /\ filter_providers = TRUE
    /\ upstream = NoWorld
    /\ all_valid = <<>>
    /\ all_fallback = <<>>
    /\ valid = <<>>
    /\ fallback = <<>>
    /\ rec_calls = 0
    /\ notice = "none"

Next ==
    \/ \E item \in SearchResults, outcome \in WriteOutcomes : SidebarAdd(item, outcome)
    \/ \E item \in CardItems, outcome \in WriteOutcomes : AlreadyWatched(item, outcome)
    \/ \E idx \in 1..MaxProfile, outcome \in WriteOutcomes : Remove(idx, outcome)
    \/ \E outcome \in WriteOutcomes : ClearAll(outcome)
    \/ Restart

Spec == Init /\ [][Next]_vars

\* The profiles "Find Matches" is applied to: titles 1..MaxSeedId, the odd
\* ones series and the even ones films, in any order without repetition.
AggItems ==
    {[id |-> i, name |-> IF i % 2 = 1 THEN "A" ELSE "B",
      media_type |-> IF i % 2 = 1 THEN "tv" ELSE "movie"] : i \in 1..MaxSeedId}

RECURSIVE Profiles(_)
Profiles(n) ==
    IF n = 0 THEN {<<>>}
    ELSE LET shorter == Profiles(n - 1)
         IN  shorter \cup UNION {{Append(p, it) : it \in AggItems \ Range(p)} :
                                      p \in {q \in shorter : Len(q) = n - 1}}

InitAgg ==
    /\ liked_items \in Profiles(MaxProfile)
    /\ data_file = [state |-> "ok", liked_items |-> liked_items]
    /\ write_failures = 0
    /\ filter_providers = TRUE
    /\ upstream \in Worlds(Len(Seeds(liked_items)))
    /\ all_valid = <<>>
    /\ all_fallback = <<>>
    /\ valid = <<>>
    /\ fallback = <<>>
    /\ rec_calls = 0
    /\ notice = "none"

NextAgg ==
    \/ FindMatches
    \/ ToggleFilter

SpecAgg == InitAgg /\ [][NextAgg]_vars

\* ------------------------------------------------------------- properties
\* a "Find Matches" run has shown its results
Ran == notice # "none"

Shown == Range(valid) \cup Range(fallback)

Score(x) == x.vote_average

\* the records of the i-th answer the loop gets to: the first ResultWindow
\* ones, up to a record without 'id'
Reached(i) ==
    LET results == Responses(upstream)[i].results
        window  == 1..Min(Len(results), ResultWindow)
        bad     == {k \in window : "id" \notin DOMAIN results[k]}
    IN  {k \in window : \A b \in bad : k < b}

ReachedRecords(i) == {Responses(upstream)[i].results[k] : k \in Reached(i)}

SeedIndices == 1..Len(upstream.recs)

\* C1: both returned sequences are duplicate-free by candidate id and no
\* id occurs in both of them.
C1_DuplicateFreeDisjoint ==
    /\ \A i, j \in 1..Len(valid) : i # j => valid[i].id # valid[j].id
    /\ \A i, j \in 1..Len(fallback) : i # j => fallback[i].id # fallback[j].id
    /\ \A i \in 1..Len(valid), j \in 1..Len(fallback) : valid[i].id # fallback[j].id

\* a returned candidate was named by two seeds' answers and twice by one answer
C1_Witness ==
    /\ Ran
    /\ \E x \in Shown :
          /\ \E i, j \in SeedIndices :
                /\ i # j
                /\ \E r \in ReachedRecords(i) : r.id = x.id
                /\ \E r \in ReachedRecords(j) : r.id = x.id
          /\ \E i \in SeedIndices :
                \E k, l \in Reached(i) :
                    /\ k # l
                    /\ Responses(upstream)[i].results[k].id = x.id
                    /\ Responses(upstream)[i].results[l].id = x.id

\* C2: no returned candidate carries the id of any entry of liked_items,
\* seed or not.
C2_NoSelfRecommendation ==
    \A x \in Shown : \A i \in 1..Len(liked_items) : x.id # liked_items[i].id

\* an answer named a title, good enough for the gate, whose id only an entry
\* older than the seeds carries, and the run returned candidates
C2_Witness ==
    /\ Ran
    /\ Shown # {}
    /\ Len(liked_items) > SeedWindow
    /\ \E k \in 1..(Len(liked_items) - SeedWindow) :
          /\ \A j \in (Len(liked_items) - SeedWindow + 1)..Len(liked_items) :
                liked_items[j].id # liked_items[k].id
          /\ \E i \in SeedIndices : \E r \in ReachedRecords(i) :
                r.id = liked_items[k].id /\ PassesGate(r)

\* C3: every returned candidate has vote_average >= 6.0 and vote_count >= 50,
\* both fields present.
C3_QualityGate ==
    \A x \in Shown :
        /\ "vote_average" \in DOMAIN x
        /\ "vote_count" \in DOMAIN x
        /\ x.vote_average >= MIN_VOTE_AVERAGE
        /\ x.vote_count >= MIN_VOTE_COUNT

\* the answers held new titles without vote_average, without vote_count, with
\* a low average and with few votes, and the run returned candidates
C3_Witness ==
    /\ Ran
    /\ valid # <<>>
    /\ fallback # <<>>
    /\ \E i \in SeedIndices :
          LET fresh == {r \in ReachedRecords(i) : r.id \notin liked_ids(liked_items)}
          IN  /\ \E r \in fresh : "vote_average" \notin DOMAIN r
              /\ \E r \in fresh : "vote_count" \notin DOMAIN r
              /\ \E r \in fresh : "vote_average" \in DOMAIN r /\ r.vote_average < MIN_VOTE_AVERAGE
              /\ \E r \in fresh : "vote_count" \in DOMAIN r /\ r.vote_count < MIN_VOTE_COUNT

\* position of the candidate with this id in a list
Pos(s, id) == CHOOSE i \in 1..Len(s) : s[i].id = id

\* x ranks before y: higher score, or equal score and discovered earlier
RanksBefore(part, x, y) ==
    \/ Score(x) > Score(y)
    \/ Score(x) = Score(y) /\ Pos(part, x.id) < Pos(part, y.id)

\* out is the first n elements of the stable descending sort of part
TopOfStableSort(out, part, n) ==
    /\ Len(out) = Min(n, Len(part))
    /\ Range(out) \subseteq Range(part)
    /\ \A i, j \in 1..Len(out) : i < j => RanksBefore(part, out[i], out[j])
    /\ \A x \in Range(part) \ Range(out) : \A y \in Range(out) : RanksBefore(part, y, x)

\* C4: valid is the first 12 and fallback the first 6 elements of the stable
\* descending-by-score sort of its partition taken in discovery order.
C4_SortedTruncated ==
    /\ TopOfStableSort(valid, all_valid, ValidLimit)
    /\ TopOfStableSort(fallback, all_fallback, FallbackLimit)

\* both partitions were cut, with equal scores inside valid and across the cut
C4_Witness ==
    /\ Ran
    /\ Len(all_valid) > ValidLimit
    /\ Len(all_fallback) > FallbackLimit
    /\ \E i, j \in 1..Len(valid) : i # j /\ Score(valid[i]) = Score(valid[j])
    /\ \E x \in Range(all_valid) \ Range(valid) : Score(x) = Score(valid[Len(valid)])
    /\ \E i \in 1..(Len(all_valid) - 1) : Score(all_valid[i]) < Score(all_valid[i + 1])

\* the allow-listed providers the GB entry of a provider answer lists under
\* flatrate, free or ads; none when the request failed or GB is missing
AllowedOffered(resp) ==
    IF ~resp.ok \/ "GB" \notin DOMAIN resp.results THEN {}
    ELSE {n \in MY_SERVICES :
            \E kind \in {"flatrate", "free", "ads"} :
                /\ kind \in DOMAIN resp.results.GB
                /\ \E j \in 1..Len(resp.results.GB[kind]) :
                      resp.results.GB[kind][j].provider_name = n}

LookedUp(x) == ProvResponse(x.id, x.media_type, upstream.variant)

\* C5: a surviving candidate is in the available list exactly when its GB
\* entry lists an allow-listed provider under flatrate, free or ads, and it
\* then carries those providers; otherwise it is in the fallback list.
C5_AvailableIffOffered ==
    /\ \A x \in Range(all_valid) \cup Range(valid) :
          /\ AllowedOffered(LookedUp(x)) # {}
          /\ Range(x.my_providers) = AllowedOffered(LookedUp(x))
    /\ \A x \in Range(all_fallback) \cup Range(fallback) :
          /\ AllowedOffered(LookedUp(x)) = {}
          /\ "my_providers" \notin DOMAIN x

\* fallback holds a rent/buy-only title, one without GB entry and one whose
\* lookup failed; valid holds one offered by listed and unlisted providers
C5_Witness ==
    /\ Ran
    /\ valid # <<>>
    /\ \E x \in Range(fallback) : LookedUp(x) = ProvRentBuy
    /\ \E x \in Range(fallback) : LookedUp(x) = ProvNoGB
    /\ \E x \in Range(fallback) : LookedUp(x) = ProvFail
    /\ \E x \in Range(valid) : LookedUp(x) = ProvMixed

EmptyAnswer == [ok |-> TRUE, results |-> <<>>]

\* C6: a failed recommendation request leaves the run as if that seed had
\* answered with no records: every seed is still requested, the returned
\* lists are those of the run with the empty answer, and when every request
\* fails both lists are empty.
C6_FailureIsolated ==
    Ran =>
        /\ rec_calls = Len(Seeds(liked_items))
        /\ \A i \in SeedIndices :
              upstream.recs[i] = 0 =>
                  LET r == get_recommendations_multi_seed(
                               liked_items,
                               [Responses(upstream) EXCEPT ![i] = EmptyAnswer],
                               upstream.variant)
                  IN  valid = r.valid /\ fallback = r.fallback
        /\ (\A i \in SeedIndices : upstream.recs[i] = 0) => valid = <<>> /\ fallback = <<>>

\* a seed answered before and another after a failed request, and the run
\* returned candidates of both lists
C6_Witness ==
    /\ Ran
    /\ valid # <<>>
    /\ fallback # <<>>
    /\ \E i, j, k \in SeedIndices :
          /\ i < j
          /\ j < k
          /\ upstream.recs[i] # 0
          /\ upstream.recs[j] = 0
          /\ upstream.recs[k] # 0

\* C7: liked_items never holds two entries with the same id and media kind.
C7_UniqueIdAndKind ==
    \A i, j \in 1..Len(liked_items) :
        i # j => ~(/\ liked_items[i].id = liked_items[j].id
                   /\ liked_items[i].media_type = liked_items[j].media_type)

\* C8: with the provider filter on, an empty available list with a non-empty
\* fallback list gives the soft warning, and the hard notice is given only
\* when both lists are empty.
C8_NoticeFollowsResult ==
    (Ran /\ filter_providers) =>
        /\ (valid = <<>> /\ fallback # <<>>) => notice = "warning"
        /\ notice = "error" => (valid = <<>> /\ fallback = <<>>)

\* C9: the providers attached to a candidate are allow-listed names, each at
\* most once.
C9_ProvidersAreASet ==
    \A x \in Range(valid) :
        /\ Range(x.my_providers) \subseteq MY_SERVICES
        /\ \A i, j \in 1..Len(x.my_providers) :
              i # j => x.my_providers[i] # x.my_providers[j]

\* C10: after every profile operation the saved liked items are the ones in
\* memory, so loading the file yields the profile of the session.
C10_SavedEqualsMemory == load_user_data(data_file) = liked_items

====
